---------------------------- MODULE Spec2Model ----------------------------
(***************************************************************************)
(* Model of src/script.py: the LaravelCollective -> spatie/laravel-html    *)
(* call rewriter.  Text is a sequence of one-character strings; indices    *)
(* kept in variables are Python's 0-based indices.                         *)
(***************************************************************************)
EXTENDS Integers, Sequences, FiniteSets, TLC

VARIABLES
    pc,        \* position of the running function
    content,   \* extract_call_args / extract_and_replace_calls / convert_code: content
    fn,        \* which function is running
    s,         \* split_args: the argument text `s`
    n,         \* split_args: number of characters of s the for-loop consumed
    parts,     \* split_args: parts
    cur,       \* split_args: cur
    paren,     \* split_args: paren
    bracket,   \* split_args: bracket
    in_str,    \* both scanners: in_str (None or the open quote)
    escape,    \* both scanners: escape
    start,     \* extract_call_args: start
    i,         \* extract_call_args: i
    depth,     \* extract_call_args: depth
    ret,       \* extract_call_args: the returned pair, once returned
    alias,     \* extract_and_replace_calls: alias
    method,    \* extract_and_replace_calls: method
    idx,       \* extract_and_replace_calls: idx
    out,       \* extract_and_replace_calls: out
    sites,     \* history: the call sites replaced so far (pos, args_end, code)
    array_str, \* convert_attributes: array_str
    chain,     \* convert_attributes: the returned chain, once returned
    aliases,   \* convert_code: the aliases the for-loop has still to take
    stmt,      \* convert_code: the next statement of lines 243-257
    src,       \* history: the text convert_code was first given
    run,       \* history: 1 for convert_code(src), 2 for convert_code of its result
    first      \* history: the result of the first run

scanVars == <<s, n, parts, cur, paren, bracket, in_str, escape,
              start, i, depth, ret>>
callVars == <<alias, method, idx, out, sites>>

attrVars == <<array_str, chain>>
convVars == <<aliases, stmt, src, run, first>>

vars == <<pc, fn, content, scanVars, callVars, attrVars, convVars>>

-----------------------------------------------------------------------------
(* Characters and Python string primitives                                 *)

None == "None"

BS == "\\"
DQ == "\""
SQ == "'"

\* str.strip() / regex \s: the whitespace characters texts are built from
Whitespace == {" ", "\n", "\t"}

Min(a, b) == IF a < b THEN a ELSE b
Max(a, b) == IF a > b THEN a ELSE b

\* content[k] for a 0-based index k
At(t, k) == t[k + 1]

\* Python's t[a:b], negative indices counted from the end, then clamped
PySlice(t, a, b) ==
    LET len == Len(t)
        lo  == IF a < 0 THEN Max(a + len, 0) ELSE Min(a, len)
        hi  == IF b < 0 THEN Max(b + len, 0) ELSE Min(b, len)
    IN  IF hi <= lo THEN <<>> ELSE SubSeq(t, lo + 1, hi)

RECURSIVE LStrip(_)
LStrip(t) ==
    IF t # <<>> /\ Head(t) \in Whitespace THEN LStrip(Tail(t)) ELSE t

RECURSIVE RStrip(_)
RStrip(t) ==
    IF t # <<>> /\ t[Len(t)] \in Whitespace
    THEN RStrip(SubSeq(t, 1, Len(t) - 1)) ELSE t

\* str.strip()
Strip(t) == RStrip(LStrip(t))

-----------------------------------------------------------------------------
(* Python's re: the subset of patterns script.py uses                      *)

UpperCase ==
    <<"A", "B", "C", "D", "E", "F", "G", "H", "I", "J", "K", "L", "M">>
      \o <<"N", "O", "P", "Q", "R", "S", "T", "U", "V", "W", "X", "Y", "Z">>

LowerCase ==
    <<"a", "b", "c", "d", "e", "f", "g", "h", "i", "j", "k", "l", "m">>
      \o <<"n", "o", "p", "q", "r", "s", "t", "u", "v", "w", "x", "y", "z">>

Digits == {"0", "1", "2", "3", "4", "5", "6", "7", "8", "9"}

\* \w
WordChars ==
    {UpperCase[j] : j \in 1..26} \cup {LowerCase[j] : j \in 1..26}
      \cup Digits \cup {"_"}

\* str.lower() of one character, as re.IGNORECASE compares
Lower(c) ==
    IF \E j \in 1..26 : UpperCase[j] = c
    THEN LowerCase[CHOOSE j \in 1..26 : UpperCase[j] = c] ELSE c

\* a character class: the listed characters, or (neg) all the others
Class(set) == [neg |-> FALSE, set |-> set]
NotClass(set) == [neg |-> TRUE, set |-> set]
InClass(c, cls) == (c \in cls.set) # cls.neg

ClsSpace == Class(Whitespace)          \* \s
ClsWord == Class(WordChars)            \* \w
ClsQuote == Class({SQ, DQ})            \* ['\"]
ClsNotComma == NotClass({","})         \* [^,]
ClsNotCommaParen == NotClass({",", ")"})   \* [^,\)]
ClsNotRBracket == NotClass({"]"})      \* [^\]]
ClsDot == NotClass({"\n"})             \* .  (without re.DOTALL)
ClsAny == NotClass({})                 \* .  (with re.DOTALL)

\* pattern items
Lit(str) == [op |-> "lit", lit |-> str, cls |-> ClsAny, lo |-> 0, g |-> 0, body |-> <<>>]
Star(cls) == [op |-> "greedy", lit |-> <<>>, cls |-> cls, lo |-> 0, g |-> 0, body |-> <<>>]
Plus(cls) == [op |-> "greedy", lit |-> <<>>, cls |-> cls, lo |-> 1, g |-> 0, body |-> <<>>]
LazyStar(cls) == [op |-> "lazy", lit |-> <<>>, cls |-> cls, lo |-> 0, g |-> 0, body |-> <<>>]
One(cls) == [op |-> "one", lit |-> <<>>, cls |-> cls, lo |-> 1, g |-> 0, body |-> <<>>]
Open(g) == [op |-> "open", lit |-> <<>>, cls |-> ClsAny, lo |-> 0, g |-> g, body |-> <<>>]
Close(g) == [op |-> "close", lit |-> <<>>, cls |-> ClsAny, lo |-> 0, g |-> g, body |-> <<>>]
Ref(g) == [op |-> "ref", lit |-> <<>>, cls |-> ClsAny, lo |-> 0, g |-> g, body |-> <<>>]
Opt(body) == [op |-> "opt", lit |-> <<>>, cls |-> ClsAny, lo |-> 0, g |-> 0, body |-> body]

\* ( item ) as capture group g
Group(g, items) == <<Open(g)>> \o items \o <<Close(g)>>

\* the most capture groups a pattern of script.py has (line 142)
MaxGroups == 4

NoCaps == [g \in 1..MaxGroups |-> <<-1, -1>>]
NoMatch == [ok |-> FALSE, from |-> -1, end |-> -1, caps |-> NoCaps]

\* m.group(g): the captured text, None when the group took no part
GroupOf(t, m, g) ==
    IF m.caps[g][2] < 0 THEN None ELSE PySlice(t, m.caps[g][1], m.caps[g][2])

\* t holds str at 0-based position p (ic: ignoring case)
HasAt(t, p, str, ic) ==
    /\ p + Len(str) <= Len(t)
    /\ \A j \in 1..Len(str) :
         IF ic THEN Lower(t[p + j]) = Lower(str[j]) ELSE t[p + j] = str[j]

\* t.startswith(str), t.endswith(str)
StartsWith(t, str) == HasAt(t, 0, str, FALSE)
EndsWith(t, str) == Len(str) <= Len(t) /\ HasAt(t, Len(t) - Len(str), str, FALSE)

\* number of consecutive characters of cls from position p
RECURSIVE RunLen(_, _, _)
RunLen(t, p, cls) ==
    IF p < Len(t) /\ InClass(At(t, p), cls) THEN 1 + RunLen(t, p + 1, cls) ELSE 0

\* the backtracking matcher: the first way, in the engine's order of
\* preference, in which pat matches t from position p
RECURSIVE MatchAt(_, _, _, _, _)
RECURSIVE TryCounts(_, _, _, _, _, _, _, _)
TryCounts(t, rest, p, caps, ic, k, last, step) ==
    LET r == MatchAt(t, rest, p + k, caps, ic)
    IN  IF r.ok \/ k = last THEN r
        ELSE TryCounts(t, rest, p, caps, ic, k + step, last, step)

MatchAt(t, pat, p, caps, ic) ==
    IF pat = <<>> THEN [ok |-> TRUE, from |-> -1, end |-> p, caps |-> caps]
    ELSE LET it == Head(pat)
             rest == Tail(pat)
         IN CASE it.op = "lit" ->
                   IF HasAt(t, p, it.lit, ic)
                   THEN MatchAt(t, rest, p + Len(it.lit), caps, ic) ELSE NoMatch
              [] it.op = "one" ->
                   IF p < Len(t) /\ InClass(At(t, p), it.cls)
                   THEN MatchAt(t, rest, p + 1, caps, ic) ELSE NoMatch
              [] it.op = "open" ->
                   MatchAt(t, rest, p, [caps EXCEPT ![it.g] = <<p, -1>>], ic)
              [] it.op = "close" ->
                   MatchAt(t, rest, p, [caps EXCEPT ![it.g] = <<@[1], p>>], ic)
              [] it.op = "ref" ->
                   IF caps[it.g][2] >= 0
                        /\ HasAt(t, p, PySlice(t, caps[it.g][1], caps[it.g][2]), ic)
                   THEN MatchAt(t, rest, p + caps[it.g][2] - caps[it.g][1], caps, ic)
                   ELSE NoMatch
              [] it.op = "opt" ->
                   LET r == MatchAt(t, it.body \o rest, p, caps, ic)
                   IN  IF r.ok THEN r ELSE MatchAt(t, rest, p, caps, ic)
              [] it.op = "greedy" ->
                   LET most == RunLen(t, p, it.cls)
                   IN  IF most < it.lo THEN NoMatch
                       ELSE TryCounts(t, rest, p, caps, ic, most, it.lo, -1)
              [] it.op = "lazy" ->
                   LET most == RunLen(t, p, it.cls)
                   IN  TryCounts(t, rest, p, caps, ic, it.lo, most, 1)

\* pattern.search(t, p): the leftmost match at or after position p
RECURSIVE Search(_, _, _, _)
Search(t, pat, p, ic) ==
    IF p > Len(t) THEN NoMatch
    ELSE LET r == MatchAt(t, pat, p, NoCaps, ic)
         IN  IF r.ok THEN [r EXCEPT !.from = p] ELSE Search(t, pat, p + 1, ic)

\* pattern.finditer(t): the successive non-overlapping matches from p on
\* (no pattern of script.py matches the empty string)
RECURSIVE FindIter(_, _, _, _)
FindIter(t, pat, p, ic) ==
    LET r == Search(t, pat, p, ic)
    IN  IF r.ok THEN <<r>> \o FindIter(t, pat, r.end, ic) ELSE <<>>

-----------------------------------------------------------------------------
(* split_args                                                              *)

\* the state of split_args before its loop (lines 13-18)
SplitInit ==
    [parts |-> <<>>, cur |-> <<>>, paren |-> 0, bracket |-> 0,
     in_str |-> None, escape |-> FALSE]

\* MUTANT of SplitStep: the bracket depth is not consulted at a comma
SplitStepNoBracket(st, c) ==
    IF st.escape THEN [st EXCEPT !.cur = Append(@, c), !.escape = FALSE]
    ELSE IF c = BS THEN [st EXCEPT !.cur = Append(@, c), !.escape = TRUE]
    ELSE IF st.in_str # None
    THEN [st EXCEPT !.cur = Append(@, c),
                    !.in_str = IF c = @ THEN None ELSE @]
    ELSE IF c \in {DQ, SQ}
    THEN [st EXCEPT !.in_str = c, !.cur = Append(@, c)]
    ELSE LET p == IF c = "(" THEN st.paren + 1
                  ELSE IF c = ")" THEN st.paren - 1 ELSE st.paren
             b == IF c = "(" \/ c = ")" THEN st.bracket
                  ELSE IF c = "[" THEN st.bracket + 1
                  ELSE IF c = "]" THEN st.bracket - 1 ELSE st.bracket
         IN  IF c = "," /\ p = 0
             THEN [st EXCEPT !.paren = p, !.bracket = b,
                             !.parts = Append(@, Strip(st.cur)), !.cur = <<>>]
             ELSE [st EXCEPT !.paren = p, !.bracket = b, !.cur = Append(@, c)]

\* one iteration of `for c in s` (lines 20-51)
SplitStep(st, c) ==
    IF st.escape THEN [st EXCEPT !.cur = Append(@, c), !.escape = FALSE]
    ELSE IF c = BS THEN [st EXCEPT !.cur = Append(@, c), !.escape = TRUE]
    ELSE IF st.in_str # None
    THEN [st EXCEPT !.cur = Append(@, c),
                    !.in_str = IF c = @ THEN None ELSE @]
    ELSE IF c \in {DQ, SQ}
    THEN [st EXCEPT !.in_str = c, !.cur = Append(@, c)]
    ELSE LET p == IF c = "(" THEN st.paren + 1
                  ELSE IF c = ")" THEN st.paren - 1 ELSE st.paren
             b == IF c = "(" \/ c = ")" THEN st.bracket
                  ELSE IF c = "[" THEN st.bracket + 1
                  ELSE IF c = "]" THEN st.bracket - 1 ELSE st.bracket
         IN  IF c = "," /\ p = 0 /\ b = 0
             THEN [st EXCEPT !.paren = p, !.bracket = b,
                             !.parts = Append(@, Strip(st.cur)), !.cur = <<>>]
             ELSE [st EXCEPT !.paren = p, !.bracket = b, !.cur = Append(@, c)]

\* lines 53-55: the last segment is kept unless it strips to nothing
SplitFinish(st) ==
    IF Strip(st.cur) # <<>> THEN Append(st.parts, Strip(st.cur)) ELSE st.parts

RECURSIVE SplitLoop(_, _, _)
SplitLoop(st, t, k) ==
    IF k > Len(t) THEN st ELSE SplitLoop(SplitStep(st, t[k]), t, k + 1)

\* split_args(s) as a function of its argument
split_args(t) == SplitFinish(SplitLoop(SplitInit, t, 1))

-----------------------------------------------------------------------------
(* extract_call_args                                                       *)

\* the state of extract_call_args before its loop (lines 63-66)
ExtractInit(st0) ==
    [depth |-> 1, in_str |-> None, escape |-> FALSE, i |-> st0]

\* MUTANT of ExtractStep: a quote closes the string even after a backslash
ExtractStepNoEscape(st, c) ==
    LET st1 ==
        IF c = BS THEN [st EXCEPT !.escape = TRUE]
        ELSE IF st.in_str # None
        THEN [st EXCEPT !.in_str = IF c = @ THEN None ELSE @, !.escape = FALSE]
        ELSE IF c \in {DQ, SQ} THEN [st EXCEPT !.in_str = c, !.escape = FALSE]
        ELSE IF c = "(" THEN [st EXCEPT !.depth = @ + 1, !.escape = FALSE]
        ELSE IF c = ")" THEN [st EXCEPT !.depth = @ - 1, !.escape = FALSE]
        ELSE [st EXCEPT !.escape = FALSE]
    IN  [st1 EXCEPT !.i = @ + 1]

\* one iteration of the while loop (lines 68-82)
ExtractStep(st, c) ==
    LET st1 ==
        IF st.escape THEN [st EXCEPT !.escape = FALSE]
        ELSE IF c = BS THEN [st EXCEPT !.escape = TRUE]
        ELSE IF st.in_str # None
        THEN [st EXCEPT !.in_str = IF c = @ THEN None ELSE @]
        ELSE IF c \in {DQ, SQ} THEN [st EXCEPT !.in_str = c]
        ELSE IF c = "(" THEN [st EXCEPT !.depth = @ + 1]
        ELSE IF c = ")" THEN [st EXCEPT !.depth = @ - 1]
        ELSE st
    IN  [st1 EXCEPT !.i = @ + 1]

\* the loop condition (line 67)
ExtractContinues(t, st) == st.i < Len(t) /\ st.depth > 0

\* MUTANT of ExtractReturn: the slice runs through index i-1 inclusive
ExtractReturnInclusive(t, st0, k) == <<PySlice(t, st0, k), k - 1>>

\* line 83: return content[start:i-1], i-1
ExtractReturn(t, st0, k) == <<PySlice(t, st0, k - 1), k - 1>>

RECURSIVE ExtractLoop(_, _)
ExtractLoop(t, st) ==
    IF ExtractContinues(t, st) THEN ExtractLoop(t, ExtractStep(st, At(t, st.i)))
    ELSE st

\* extract_call_args(content, start) as a function of its arguments
extract_call_args(t, st0) ==
    ExtractReturn(t, st0, ExtractLoop(t, ExtractInit(st0)).i)

-----------------------------------------------------------------------------
(* convert_attributes                                                      *)

\* flatten a sequence of texts into one text
RECURSIVE Concat(_)
Concat(ts) == IF ts = <<>> THEN <<>> ELSE Head(ts) \o Concat(Tail(ts))

\* line 99: (['\"])(\w+)\1\s*=>\s*(['\"])(.*?)\3
AttrPattern ==
    Group(1, <<One(ClsQuote)>>) \o Group(2, <<Plus(ClsWord)>>)
      \o <<Ref(1), Star(ClsSpace), Lit(<<"=", ">">>), Star(ClsSpace)>>
      \o Group(3, <<One(ClsQuote)>>) \o Group(4, <<LazyStar(ClsDot)>>)
      \o <<Ref(3)>>

\* lines 96-98: strip, then drop the enclosing [ ] when both are there
AttrBody(arr) ==
    LET st == Strip(arr)
    IN  IF StartsWith(st, <<"[">>) /\ EndsWith(st, <<"]">>)
        THEN PySlice(st, 1, -1) ELSE st

\* line 102: f"->{key}('{val}')"
AttrSetter(key, val) ==
    <<"-", ">">> \o key \o <<"(", SQ>> \o val \o <<SQ, ")">>

\* convert_attributes(array_str) (lines 95-103)
convert_attributes(arr) ==
    LET body == AttrBody(arr)
        ms == FindIter(body, AttrPattern, 0, FALSE)
    IN  Concat([j \in 1..Len(ms) |->
                  AttrSetter(GroupOf(body, ms[j], 2), GroupOf(body, ms[j], 4))])

-----------------------------------------------------------------------------
(* extract_and_replace_calls                                               *)

TxtLink == <<"l","i","n","k">>
TxtLinkRoute == <<"l","i","n","k","R","o","u","t","e">>
TxtColons == <<":",":">>
TxtEmptyString == <<"'","'">>
TxtEmptyArray == <<"[","]">>
TxtRouteOpen == <<"h","t","m","l","(",")","-",">","a","(",")","-",">","r","o","u","t","e","(">>
TxtAnchorOpen == <<"h","t","m","l","(",")","-",">","a","(">>
TxtAttributesOpen == <<"-",">","a","t","t","r","i","b","u","t","e","s","(">>
TxtHtmlOpen == <<"-",">","h","t","m","l","(">>
TxtCommaSpace == <<","," ">>

\* line 193: call = f"{alias}::{method}"
CallName(al, me) == al \o TxtColons \o me

\* str.find(needle, from): the lowest index >= from where needle is, or -1
Find(t, needle, from) ==
    LET hits == {k \in from..(Len(t) - Len(needle)) : HasAt(t, k, needle, FALSE)}
    IN  IF hits = {} THEN -1 ELSE CHOOSE k \in hits : \A h \in hits : k <= h

\* MUTANT of FindCall: the prefix is searched without its parenthesis
FindCallNoParen(t, al, me, from) == Find(t, CallName(al, me), from)

\* line 197: content.find(call + '(', idx)
FindCall(t, al, me, from) == Find(t, CallName(al, me) \o <<"(">>, from)

\* parts[k] if len(parts) > k else dflt  (k is 0-based)
PartOr(ps, k, dflt) == IF Len(ps) > k THEN ps[k + 1] ELSE dflt

\* lines 206-212: the linkRoute rule
LinkRouteCode(ps) ==
    LET route_name == PartOr(ps, 0, TxtEmptyString)
        params     == PartOr(ps, 1, TxtEmptyArray)
        attrs      == PartOr(ps, 2, TxtEmptyArray)
        title      == PartOr(ps, 3, TxtEmptyString)
    IN  TxtRouteOpen \o route_name \o TxtCommaSpace \o params \o <<")">>
          \o (IF StartsWith(attrs, <<"[">>) THEN convert_attributes(attrs)
              ELSE TxtAttributesOpen \o attrs \o <<")">>)
          \o TxtHtmlOpen \o title \o <<")">>

\* lines 214-221: the link rule
LinkCode(ps) ==
    LET href  == PartOr(ps, 0, TxtEmptyString)
        title == PartOr(ps, 1, TxtEmptyString)
        attrs == PartOr(ps, 2, <<>>)
    IN  TxtAnchorOpen \o href \o TxtCommaSpace \o title \o <<")">>
          \o (IF StartsWith(attrs, <<"[">>) THEN convert_attributes(attrs)
              ELSE IF attrs # <<>> THEN TxtAttributesOpen \o attrs \o <<")">>
              ELSE <<>>)

\* lines 205-221: the replacement text of one call site
RuleCode(me, ps) == IF me = TxtLinkRoute THEN LinkRouteCode(ps) ELSE LinkCode(ps)

\* line 202: args_start = pos + len(call) + 1
ArgsStart(pos, al, me) == pos + Len(CallName(al, me)) + 1

\* MUTANT of NextIdx: the cursor is left on the closing parenthesis
NextIdxOnParen(args_end) == args_end

\* MUTANT of NextIdx: the cursor goes back to where the last search began
NextIdxRewind(args_end) == 0

\* line 223: idx = args_end + 1
NextIdx(args_end) == args_end + 1

\* one iteration of `while True` (lines 197-223)
CallIteration(t, al, me, ix, acc) ==
    LET pos == FindCall(t, al, me, ix)
    IN  IF pos = -1
        THEN [found |-> FALSE, pos |-> -1, args_end |-> -1, code |-> <<>>,
              out |-> acc \o PySlice(t, ix, Len(t)), idx |-> ix]
        ELSE LET ex   == extract_call_args(t, ArgsStart(pos, al, me))
                 code == RuleCode(me, split_args(ex[1]))
             IN  [found |-> TRUE, pos |-> pos, args_end |-> ex[2], code |-> code,
                  out |-> acc \o PySlice(t, ix, pos) \o code,
                  idx |-> NextIdx(ex[2])]

RECURSIVE CallLoop(_, _, _, _, _)
CallLoop(t, al, me, ix, acc) ==
    LET r == CallIteration(t, al, me, ix, acc)
    IN  IF r.found THEN CallLoop(t, al, me, r.idx, r.out) ELSE r.out

\* extract_and_replace_calls(content, alias, method) (lines 192-224)
extract_and_replace_calls(t, al, me) == CallLoop(t, al, me, 0, <<>>)

-----------------------------------------------------------------------------
(* re.sub and replace_alias_generic                                        *)

\* the text t from position p on, with each match ms[k], ms[k+1], ...
\* replaced by reps[k], reps[k+1], ...
RECURSIVE SubFrom(_, _, _, _, _)
SubFrom(t, ms, reps, k, p) ==
    IF k > Len(ms) THEN PySlice(t, p, Len(t))
    ELSE PySlice(t, p, ms[k].from) \o reps[k]
           \o SubFrom(t, ms, reps, k + 1, ms[k].end)

\* re.sub(pattern, repl, t), given the matches of pattern in t and the
\* text repl returns for each
ReSub(t, ms, reps) == SubFrom(t, ms, reps, 1, 0)

\* m.group(0)
Group0(t, m) == PySlice(t, m.from, m.end)

TxtHtmlArrow == <<"h","t","m","l","(",")","-",">">>

\* line 228: rf"{alias}::(\w+)\((.*?)\)" with re.DOTALL
GenericPattern(al) ==
    <<Lit(al \o TxtColons)>> \o Group(1, <<Plus(ClsWord)>>) \o <<Lit(<<"(">>)>>
      \o Group(2, <<LazyStar(ClsAny)>>) \o <<Lit(<<")">>)>>

\* lines 229-233: repl
GenericRepl(t, m) ==
    IF GroupOf(t, m, 1) \in {TxtLink, TxtLinkRoute} THEN Group0(t, m)
    ELSE TxtHtmlArrow \o GroupOf(t, m, 1) \o <<"(">> \o GroupOf(t, m, 2) \o <<")">>

\* replace_alias_generic(content, alias) (lines 227-234)
replace_alias_generic(t, al) ==
    LET ms == FindIter(t, GenericPattern(al), 0, FALSE)
    IN  ReSub(t, ms, [k \in 1..Len(ms) |-> GenericRepl(t, ms[k])])

-----------------------------------------------------------------------------
(* find_html_aliases and the Form:: rules                                  *)

TxtUse == <<"u","s","e">>
TxtAs == <<"a","s">>
TxtFacadePath == <<"C","o","l","l","e","c","t","i","v","e","\\","H","t","m","l","\\","H","t","m","l","F","a","c","a","d","e">>
TxtHtmlFacade == <<"H","t","m","l","F","a","c","a","d","e">>

\* line 87: use\s+Collective\\Html\\HtmlFacade(?:\s+as\s+(\w+))?;
UsePattern ==
    <<Lit(TxtUse), Plus(ClsSpace), Lit(TxtFacadePath),
      Opt(<<Plus(ClsSpace), Lit(TxtAs), Plus(ClsSpace)>> \o Group(1, <<Plus(ClsWord)>>)),
      Lit(<<";">>)>>

\* find_html_aliases(content) (lines 86-92)
find_html_aliases(t) ==
    LET ms == FindIter(t, UsePattern, 0, TRUE)
    IN  [k \in 1..Len(ms) |->
           IF GroupOf(t, ms[k], 1) # None THEN GroupOf(t, ms[k], 1) ELSE TxtHtmlFacade]

\* line 243: use\s+Collective\\Html\\HtmlFacade(?:\s+as\s+\w+)?;\s*\n
UseLinePattern ==
    <<Lit(TxtUse), Plus(ClsSpace), Lit(TxtFacadePath),
      Opt(<<Plus(ClsSpace), Lit(TxtAs), Plus(ClsSpace), Plus(ClsWord)>>),
      Lit(<<";">>), Star(ClsSpace), Lit(<<"\n">>)>>

\* line 243: the import lines are deleted
remove_use_lines(t) ==
    LET ms == FindIter(t, UseLinePattern, 0, TRUE)
    IN  ReSub(t, ms, [k \in 1..Len(ms) |-> <<>>])

TxtForm == <<"F","o","r","m",":",":">>
TxtFormOpen == <<"h","t","m","l","(",")","-",">","f","o","r","m","(",")">>
TxtOpenCall == <<"-",">","o","p","e","n","(">>
TxtFormClose == <<"h","t","m","l","(",")","-",">","f","o","r","m","(",")","-",">","c","l","o","s","e","(",")">>
TxtSelected == <<"-",">","s","e","l","e","c","t","e","d","(">>

MHidden == <<"h","i","d","d","e","n">>
MEmail == <<"e","m","a","i","l">>
MPassword == <<"p","a","s","s","w","o","r","d">>
MSubmit == <<"s","u","b","m","i","t">>
MSelect == <<"s","e","l","e","c","t">>
MRadio == <<"r","a","d","i","o">>
MCheckbox == <<"c","h","e","c","k","b","o","x">>
MButton == <<"b","u","t","t","o","n">>
MTextarea == <<"t","e","x","t","a","r","e","a">>
MNumber == <<"n","u","m","b","e","r">>
\* line 256: ('file', 'date', 'time', 'url', 'search')
LoopMethods ==
    <<<<"f","i","l","e">>,
      <<"d","a","t","e">>,
      <<"t","i","m","e">>,
      <<"u","r","l">>,
      <<"s","e","a","r","c","h">>>>

\* Form::{method}\(
FormPrefix(me) == Lit(TxtForm \o me \o <<"(">>)

\* \s*,\s*
CommaSep == <<Star(ClsSpace), Lit(<<",">>), Star(ClsSpace)>>

\* (?:\s*,\s*(\[[^\]]+\]))?  with the array as group g
OptArray(g) ==
    Opt(CommaSep \o Group(g, <<Lit(<<"[">>), Plus(ClsNotRBracket), Lit(<<"]">>)>>))

\* \s*\)
CloseParen == <<Star(ClsSpace), Lit(<<")">>)>>

\* line 244: Form::open\((.*?)\)
OpenPattern ==
    <<Lit(<<"F","o","r","m",":",":","o","p","e","n","(">>)>>
      \o Group(1, <<LazyStar(ClsAny)>>) \o <<Lit(<<")">>)>>

\* line 245: Form::close\(\)
ClosePattern == <<Lit(<<"F","o","r","m",":",":","c","l","o","s","e","(",")">>)>>

\* line 120: Form::{method}\(\s*([^,]+)\s*,\s*([^,\)]+)(?:\s*,\s*(\[[^\]]+\]))?\s*\)
SimplePattern(me) ==
    <<FormPrefix(me), Star(ClsSpace)>> \o Group(1, <<Plus(ClsNotComma)>>)
      \o CommaSep \o Group(2, <<Plus(ClsNotCommaParen)>>)
      \o <<OptArray(3)>> \o CloseParen

\* line 131: Form::{method}\(\s*([^,\)]+)(?:\s*,\s*(\[[^\]]+\]))?\s*\)
SingleArgPattern(me) ==
    <<FormPrefix(me), Star(ClsSpace)>> \o Group(1, <<Plus(ClsNotCommaParen)>>)
      \o <<OptArray(2)>> \o CloseParen

\* line 142: Form::select\(\s*([^,]+)\s*,\s*([^,]+)(?:\s*,\s*([^,\)]+))?(?:\s*,\s*(\[[^\]]+\]))?\s*\)
SelectPattern ==
    <<FormPrefix(MSelect), Star(ClsSpace)>> \o Group(1, <<Plus(ClsNotComma)>>)
      \o CommaSep \o Group(2, <<Plus(ClsNotComma)>>)
      \o <<Opt(CommaSep \o Group(3, <<Plus(ClsNotCommaParen)>>)), OptArray(4)>>
      \o CloseParen

\* lines 153, 163: Form::radio\(\s*([^,]+)\s*,\s*([^,]+)\s*,\s*([^,\)]+)(?:\s*,\s*(\[[^\]]+\]))?\s*\)
ThreeArgPattern(me) ==
    <<FormPrefix(me), Star(ClsSpace)>> \o Group(1, <<Plus(ClsNotComma)>>)
      \o CommaSep \o Group(2, <<Plus(ClsNotComma)>>)
      \o CommaSep \o Group(3, <<Plus(ClsNotCommaParen)>>)
      \o <<OptArray(4)>> \o CloseParen

\* lines 173, 183: Form::textarea\(\s*([^,]+)\s*,\s*([^,]+)(?:\s*,\s*(\[[^\]]+\]))?\s*\)
TwoArgPattern(me) ==
    <<FormPrefix(me), Star(ClsSpace)>> \o Group(1, <<Plus(ClsNotComma)>>)
      \o CommaSep \o Group(2, <<Plus(ClsNotComma)>>)
      \o <<OptArray(3)>> \o CloseParen

\* f"html()->{rep}("
HtmlCall(rep) == TxtHtmlArrow \o rep \o <<"(">>

\* `if at: res += convert_attributes(at)`
AttrsOf(t, m, g) ==
    IF GroupOf(t, m, g) # None /\ GroupOf(t, m, g) # <<>>
    THEN convert_attributes(GroupOf(t, m, g)) ELSE <<>>

\* replace_form_open (lines 106-112)
replace_form_open(t, m) ==
    LET args == Strip(GroupOf(t, m, 1))
    IN  IF StartsWith(args, <<"[">>) /\ EndsWith(args, <<"]">>)
        THEN TxtFormOpen \o convert_attributes(args) \o TxtOpenCall \o <<")">>
        ELSE IF args # <<>> THEN TxtFormOpen \o TxtOpenCall \o args \o <<")">>
        ELSE TxtFormOpen \o TxtOpenCall \o <<")">>

\* line 244
form_open(t) ==
    LET ms == FindIter(t, OpenPattern, 0, FALSE)
    IN  ReSub(t, ms, [k \in 1..Len(ms) |-> replace_form_open(t, ms[k])])

\* line 245 with replace_form_close (lines 115-116)
form_close(t) ==
    LET ms == FindIter(t, ClosePattern, 0, FALSE)
    IN  ReSub(t, ms, [k \in 1..Len(ms) |-> TxtFormClose])

\* replace_simple_field(method, rep, content) (lines 119-127)
replace_simple_field(me, rep, t) ==
    LET ms == FindIter(t, SimplePattern(me), 0, FALSE)
    IN  ReSub(t, ms, [k \in 1..Len(ms) |->
          HtmlCall(rep) \o GroupOf(t, ms[k], 1) \o TxtCommaSpace
            \o GroupOf(t, ms[k], 2) \o <<")">> \o AttrsOf(t, ms[k], 3)])

\* replace_single_arg_field(method, rep, content) (lines 130-138)
replace_single_arg_field(me, rep, t) ==
    LET ms == FindIter(t, SingleArgPattern(me), 0, FALSE)
    IN  ReSub(t, ms, [k \in 1..Len(ms) |->
          HtmlCall(rep) \o GroupOf(t, ms[k], 1) \o <<")">> \o AttrsOf(t, ms[k], 2)])

\* replace_form_select(content) (lines 141-149)
replace_form_select(t) ==
    LET ms == FindIter(t, SelectPattern, 0, FALSE)
    IN  ReSub(t, ms, [k \in 1..Len(ms) |->
          HtmlCall(MSelect) \o GroupOf(t, ms[k], 1) \o TxtCommaSpace
            \o GroupOf(t, ms[k], 2) \o <<")">>
            \o (IF GroupOf(t, ms[k], 3) # None
                THEN TxtSelected \o GroupOf(t, ms[k], 3) \o <<")">> ELSE <<>>)
            \o AttrsOf(t, ms[k], 4)])

\* the body shared by replace_form_radio and replace_form_checkbox
ThreeArgSub(me, t) ==
    LET ms == FindIter(t, ThreeArgPattern(me), 0, FALSE)
    IN  ReSub(t, ms, [k \in 1..Len(ms) |->
          HtmlCall(me) \o GroupOf(t, ms[k], 1) \o TxtCommaSpace
            \o GroupOf(t, ms[k], 2) \o TxtCommaSpace \o GroupOf(t, ms[k], 3)
            \o <<")">> \o AttrsOf(t, ms[k], 4)])

\* replace_form_radio(content) (lines 152-159)
replace_form_radio(t) == ThreeArgSub(MRadio, t)

\* replace_form_checkbox(content) (lines 162-169)
replace_form_checkbox(t) == ThreeArgSub(MCheckbox, t)

\* the body shared by replace_form_textarea and replace_form_number
TwoArgSub(me, t) ==
    LET ms == FindIter(t, TwoArgPattern(me), 0, FALSE)
    IN  ReSub(t, ms, [k \in 1..Len(ms) |->
          HtmlCall(me) \o GroupOf(t, ms[k], 1) \o TxtCommaSpace
            \o GroupOf(t, ms[k], 2) \o <<")">> \o AttrsOf(t, ms[k], 3)])

\* replace_form_textarea(content) (lines 172-179)
replace_form_textarea(t) == TwoArgSub(MTextarea, t)

\* replace_form_number(content) (lines 182-189)
replace_form_number(t) == TwoArgSub(MNumber, t)

-----------------------------------------------------------------------------
(* convert_code                                                            *)

\* lines 243-257 in order: the rule each statement applies to content
FormStatements ==
    <<[kind |-> "use", method |-> <<>>],
      [kind |-> "open", method |-> <<>>],
      [kind |-> "close", method |-> <<>>],
      [kind |-> "simple", method |-> MHidden],
      [kind |-> "simple", method |-> MEmail],
      [kind |-> "single", method |-> MPassword],
      [kind |-> "single", method |-> MSubmit],
      [kind |-> "select", method |-> MSelect],
      [kind |-> "radio", method |-> MRadio],
      [kind |-> "checkbox", method |-> MCheckbox],
      [kind |-> "single", method |-> MButton],
      [kind |-> "textarea", method |-> MTextarea],
      [kind |-> "number", method |-> MNumber]>>
      \o [k \in 1..Len(LoopMethods) |-> [kind |-> "single", method |-> LoopMethods[k]]]

-----------------------------------------------------------------------------
(* The scanner machine: split_args or extract_call_args run step by step   *)

\* bound: longest text drawn from the alphabet
MaxLen == 3

Alphabet == {",", "(", ")", "[", "]", SQ, DQ, BS, "a", " "}

AllTexts == UNION {[1..k -> Alphabet] : k \in 0..MaxLen}

\* foo(a, b(c, d), [e, f])
ExFoo ==
    <<"f","o","o","(","a",","," ","b","(","c",","," ","d",")",","," ",
      "[","e",","," ","f","]",")">>

\* f('it\'s, (', x)
ExEscaped ==
    <<"f","(",SQ,"i","t",BS,SQ,"s",","," ","(",SQ,","," ","x",")">>

\* 'a[,(', "b), c"
ExUnbalanced ==
    <<SQ,"a","[",",","(",SQ,","," ",DQ,"b",")",","," ","c",DQ>>

Examples == {ExFoo, ExEscaped, ExUnbalanced}

Texts == AllTexts \cup Examples

CallsIdle == alias = <<>> /\ method = <<>> /\ idx = 0 /\ out = <<>> /\ sites = <<>>
AttrsIdle == array_str = <<>> /\ chain = None
ConvertIdle == aliases = <<>> /\ stmt = 0 /\ src = <<>> /\ run = 0 /\ first = None

ScanInit ==
    /\ fn \in {"split_args", "extract_call_args"}
    /\ pc = "loop"
    /\ \E t \in Texts :
         /\ s = (IF fn = "split_args" THEN t ELSE <<>>)
         /\ content = (IF fn = "extract_call_args" THEN t ELSE <<>>)
    /\ n = 0
    /\ parts = SplitInit.parts
    /\ cur = SplitInit.cur
    /\ paren = SplitInit.paren
    /\ bracket = SplitInit.bracket
    /\ in_str = None
    /\ escape = FALSE
    /\ start \in (IF fn = "extract_call_args" THEN 0..Len(content) ELSE {0})
    /\ i = start
    /\ depth = 1
    /\ ret = None
    /\ CallsIdle /\ AttrsIdle /\ ConvertIdle

SplitState ==
    [parts |-> parts, cur |-> cur, paren |-> paren, bracket |-> bracket,
     in_str |-> in_str, escape |-> escape]

\* split_args, one character of the for-loop
SplitChar ==
    /\ fn = "split_args" /\ pc = "loop" /\ n < Len(s)
    /\ LET st == SplitStep(SplitState, s[n + 1])
       IN  /\ parts' = st.parts
           /\ cur' = st.cur
           /\ paren' = st.paren
           /\ bracket' = st.bracket
           /\ in_str' = st.in_str
           /\ escape' = st.escape
    /\ n' = n + 1
    /\ UNCHANGED <<pc, fn, s, content, start, i, depth, ret,
                   callVars, attrVars, convVars>>

\* split_args, after the loop
SplitReturn ==
    /\ fn = "split_args" /\ pc = "loop" /\ n = Len(s)
    /\ parts' = SplitFinish(SplitState)
    /\ pc' = "done"
    /\ UNCHANGED <<fn, s, n, cur, paren, bracket, in_str, escape,
                   content, start, i, depth, ret, callVars, attrVars, convVars>>

ExtractState ==
    [depth |-> depth, in_str |-> in_str, escape |-> escape, i |-> i]

\* extract_call_args, one iteration of the while loop
ExtractChar ==
    /\ fn = "extract_call_args" /\ pc = "loop"
    /\ ExtractContinues(content, ExtractState)
    /\ LET st == ExtractStep(ExtractState, At(content, i))
       IN  /\ depth' = st.depth
           /\ in_str' = st.in_str
           /\ escape' = st.escape
           /\ i' = st.i
    /\ UNCHANGED <<pc, fn, s, n, parts, cur, paren, bracket, content, start, ret,
                   callVars, attrVars, convVars>>

\* extract_call_args, the return statement
ExtractDone ==
    /\ fn = "extract_call_args" /\ pc = "loop"
    /\ ~ExtractContinues(content, ExtractState)
    /\ ret' = ExtractReturn(content, start, i)
    /\ pc' = "done"
    /\ UNCHANGED <<fn, s, n, parts, cur, paren, bracket, in_str, escape,
                   content, start, i, depth, callVars, attrVars, convVars>>

ScanNext == SplitChar \/ SplitReturn \/ ExtractChar \/ ExtractDone

SpecScan == ScanInit /\ [][ScanNext]_vars

-----------------------------------------------------------------------------
(* Properties of the scanners                                              *)

\* the character the running loop is about to consume
SplitCur == s[n + 1]
ExtractCur == At(content, i)

InSplitLoop == fn = "split_args" /\ pc = "loop" /\ n < Len(s)
InExtractLoop ==
    fn = "extract_call_args" /\ pc = "loop" /\ ExtractContinues(content, ExtractState)

\* number of occurrences of ch among the first k characters of t
Count(t, k, ch) == Cardinality({j \in 1..k : t[j] = ch})

\* the first k characters of t hold no quote and no backslash
Plain(t, k) == \A j \in 1..k : t[j] \notin {SQ, DQ, BS}

\* C1: in split_args a comma ends a segment only where paren depth is 0,
\* bracket depth is 0 and the scanner is outside any string literal (for a
\* prefix without quotes and backslashes the depths are the counts of
\* openers minus closers); a comma inside parentheses, brackets or a
\* string literal never splits.
C1_SplitOnlyAtTopLevel ==
    [][InSplitLoop =>
         /\ (Len(parts') > Len(parts) =>
                /\ SplitCur = ","
                /\ paren = 0 /\ bracket = 0 /\ in_str = None /\ ~escape
                /\ (Plain(s, n) =>
                      /\ Count(s, n, "(") = Count(s, n, ")")
                      /\ Count(s, n, "[") = Count(s, n, "]")))
         /\ (SplitCur = "," /\ (paren # 0 \/ bracket # 0 \/ in_str # None) =>
                parts' = parts /\ cur' = Append(cur, ","))
         /\ (SplitCur = "," /\ Plain(s, n)
               /\ (Count(s, n, "(") # Count(s, n, ")")
                     \/ Count(s, n, "[") # Count(s, n, "]")) =>
                parts' = parts)]_vars

\* C1 witness: the text 'a[,(', "b), c" is split once, at its only
\* top-level comma, and the commas inside the two strings did not split.
C1_Witness ==
    /\ fn = "split_args" /\ pc = "done" /\ s = ExUnbalanced
    /\ parts = <<SubSeq(ExUnbalanced, 1, 6), SubSeq(ExUnbalanced, 9, 15)>>

\* The matching ')' as the claim defines it: the first index k >= from where
\* depth, starting at d and counting only parentheses outside string
\* literals and not escaped, reaches 0; -1 when there is none.
RECURSIVE MatchingParen(_, _, _, _, _)
MatchingParen(t, k, d, q, e) ==
    IF k >= Len(t) THEN -1
    ELSE LET c == At(t, k) IN
         IF e THEN MatchingParen(t, k + 1, d, q, FALSE)
         ELSE IF c = BS THEN MatchingParen(t, k + 1, d, q, TRUE)
         ELSE IF q # None
         THEN MatchingParen(t, k + 1, d, IF c = q THEN None ELSE q, FALSE)
         ELSE IF c \in {SQ, DQ} THEN MatchingParen(t, k + 1, d, c, FALSE)
         ELSE IF c = "(" THEN MatchingParen(t, k + 1, d + 1, q, FALSE)
         ELSE IF c = ")"
         THEN IF d = 1 THEN k ELSE MatchingParen(t, k + 1, d - 1, q, FALSE)
         ELSE MatchingParen(t, k + 1, d, q, FALSE)

Matching == MatchingParen(content, start, 1, None, FALSE)

ExtractReturned == fn = "extract_call_args" /\ pc = "done"

\* C2: when the matching ')' exists, extract_call_args returns its index
\* and exactly the text between start and it; for foo(a, b(c, d), [e, f])
\* that text is a, b(c, d), [e, f] and split_args of it is the three
\* arguments a, b(c, d), [e, f].
C2_ExtractMatching ==
    ExtractReturned =>
      /\ (Matching # -1 =>
            ret = <<SubSeq(content, start + 1, Matching), Matching>>)
      /\ (content = ExFoo /\ start = 4 =>
            /\ ret = <<SubSeq(ExFoo, 5, 22), 22>>
            /\ split_args(ret[1]) =
                 <<<<"a">>, SubSeq(ExFoo, 8, 14), SubSeq(ExFoo, 17, 22)>>)

\* C2 witness: the call foo(a, b(c, d), [e, f]) scanned from just after
\* its opening parenthesis has returned the index of its closing one.
C2_Witness ==
    ExtractReturned /\ content = ExFoo /\ start = 4 /\ ret[2] = 22

\* C3 (as claimed): when the end of the text is reached before depth returns
\* to 0, the returned text is everything from start to the end of the input.
C3_ReturnsWholeRemainder ==
    ExtractReturned /\ Matching = -1 =>
      ret[1] = SubSeq(content, start + 1, Len(content))

\* C4: in both scanners a quote that follows a backslash inside a string
\* literal leaves the scanner in the same string, and while the scanner is
\* in a string a comma does not split and a parenthesis does not change the
\* depth; f('it\'s, (', x) is one call holding one string.
C4_EscapedQuoteStaysInString ==
    [][/\ (InSplitLoop /\ in_str # None =>
             /\ (escape /\ SplitCur \in {SQ, DQ} => in_str' = in_str)
             /\ (SplitCur \in {",", "(", ")", "[", "]"} =>
                   /\ parts' = parts /\ paren' = paren /\ bracket' = bracket
                   /\ in_str' = in_str))
       /\ (InExtractLoop /\ in_str # None =>
             /\ (escape /\ ExtractCur \in {SQ, DQ} => in_str' = in_str)
             /\ (ExtractCur \in {",", "(", ")"} =>
                   depth' = depth /\ in_str' = in_str))
       /\ (ExtractReturned' /\ content = ExEscaped /\ start = 2 =>
             /\ ret' = <<SubSeq(ExEscaped, 3, 15), 15>>
             /\ split_args(ret'[1]) =
                  <<SubSeq(ExEscaped, 3, 12), <<"x">>>>)]_vars

\* C4 witness: scanning f('it\'s, (', x) the extractor is past the escaped
\* quote, the comma and the parenthesis, still inside the string opened at
\* index 2, with the depth it started with.
C4_Witness ==
    /\ fn = "extract_call_args" /\ content = ExEscaped /\ start = 2
    /\ i = 11 /\ in_str = SQ /\ depth = 1

-----------------------------------------------------------------------------
(* The call-site machine: extract_and_replace_calls run one loop iteration *)
(* at a time, or replace_alias_generic, on one alias                       *)

\* bound: most fragments a text is assembled from
MaxFrags == 3

TxtHtml == <<"H","t","m","l">>

\* aliases as find_html_aliases yields them: a declared one, or the default
Aliases == {TxtHtml, TxtHtmlFacade}

CallFrags(al) ==
    { CallName(al, TxtLink) \o <<"(">>,
      CallName(al, TxtLinkRoute) \o <<"(">>,
      CallName(al, TxtLink),
      al \o <<":",":","i","m","g","(">>,
      <<"$","u">>,
      TxtCommaSpace,
      <<")">>,
      <<"[","'","i","d","'","=",">","'","x","'","]">>,
      <<SQ>> }

FragTexts(al) ==
    { Concat(f) : f \in UNION {[1..k -> CallFrags(al)] : k \in 0..MaxFrags} }

\* Alias::link($url, $title, [], false)
ExLinkFalse(al) == CallName(al, TxtLink) \o <<"(","$","u","r","l",","," ","$","t","i","t","l","e",","," ","[","]",","," ","f","a","l","s","e",")">>

\* Alias::link($u, $t, [Alias::link]) Alias::link
ExSwallowed(al) ==
    CallName(al, TxtLink) \o <<"(","$","u",","," ","$","t",","," ","[">> \o CallName(al, TxtLink)
      \o <<"]",")"," ">> \o CallName(al, TxtLink)

\* x Alias::link('a', 't', ['class'=>'btn']) y Alias::link($u)
\*  Alias::linkRoute('r', [1], ['id'=>'x'], 'T') Alias::linkRoute z
ExTwoCalls(al) ==
    <<"x"," ">> \o CallName(al, TxtLink)
      \o <<"(","'","a","'",","," ","'","t","'",","," ","[","'","c","l","a","s","s","'","=",">","'","b","t","n","'","]",")"," ","y"," ">>
      \o CallName(al, TxtLink) \o <<"(","$","u",")"," ">>
      \o CallName(al, TxtLinkRoute)
      \o <<"(","'","r","'",","," ","[","1","]",","," ","[","'","i","d","'","=",">","'","x","'","]",","," ","'","T","'",")"," ">>
      \o CallName(al, TxtLinkRoute) \o <<" ","z">>

\* Alias::linAlias::link($u)
ExOverlap(al) ==
    al \o <<":",":","l","i","n">> \o CallName(al, TxtLink) \o <<"(","$","u",")">>

CallTexts(al) ==
    FragTexts(al) \cup {ExLinkFalse(al), ExSwallowed(al), ExTwoCalls(al), ExOverlap(al)}

ScanIdle ==
    /\ s = <<>> /\ n = 0 /\ parts = <<>> /\ cur = <<>> /\ paren = 0 /\ bracket = 0
    /\ in_str = None /\ escape = FALSE /\ start = 0 /\ i = 0 /\ depth = 0
    /\ ret = None

CallsInit ==
    /\ pc = "loop"
    /\ alias \in Aliases
    /\ content \in CallTexts(alias)
    /\ \/ fn = "extract_and_replace_calls" /\ method \in {TxtLinkRoute, TxtLink}
       \/ fn = "replace_alias_generic" /\ method = <<>>
    /\ idx = 0
    /\ out = <<>>
    /\ sites = <<>>
    /\ ScanIdle /\ AttrsIdle /\ ConvertIdle

Iteration == CallIteration(content, alias, method, idx, out)

\* extract_and_replace_calls: an iteration that finds a call prefix
CallReplace ==
    /\ fn = "extract_and_replace_calls" /\ pc = "loop"
    /\ Iteration.found
    /\ out' = Iteration.out
    /\ idx' = Iteration.idx
    /\ sites' = Append(sites, [pos |-> Iteration.pos,
                               args_end |-> Iteration.args_end,
                               code |-> Iteration.code])
    /\ UNCHANGED <<pc, content, fn, alias, method, scanVars, attrVars, convVars>>

\* extract_and_replace_calls: the iteration that finds none, and the return
CallFinish ==
    /\ fn = "extract_and_replace_calls" /\ pc = "loop"
    /\ ~Iteration.found
    /\ out' = Iteration.out
    /\ pc' = "done"
    /\ UNCHANGED <<content, fn, alias, method, idx, sites,
                   scanVars, attrVars, convVars>>

\* replace_alias_generic
GenericSub ==
    /\ fn = "replace_alias_generic" /\ pc = "loop"
    /\ out' = replace_alias_generic(content, alias)
    /\ LET ms == FindIter(content, GenericPattern(alias), 0, FALSE)
       IN  sites' = [k \in 1..Len(ms) |->
                       [pos |-> ms[k].from, args_end |-> ms[k].end - 1,
                        code |-> GenericRepl(content, ms[k])]]
    /\ pc' = "done"
    /\ UNCHANGED <<content, fn, alias, method, idx, scanVars, attrVars, convVars>>

CallsNext == CallReplace \/ CallFinish \/ GenericSub

SpecCalls == CallsInit /\ [][CallsNext]_vars

-----------------------------------------------------------------------------
(* Properties of the call-site pass                                        *)

InCallLoop == fn = "extract_and_replace_calls" /\ pc = "loop"
CallsDone == fn = "extract_and_replace_calls" /\ pc = "done"
GenericDone == fn = "replace_alias_generic" /\ pc = "done"

Contains(t, sub) == Find(t, sub, 0) # -1

IsPrefix(a, b) == Len(a) <= Len(b) /\ SubSeq(b, 1, Len(a)) = a

TxtFalse == <<"f","a","l","s","e">>
TxtTextOpen == <<"-",">","t","e","x","t","(">>

\* the whole text is one call of Alias::link
OneLinkCall ==
    /\ CallsDone /\ method = TxtLink /\ Len(sites) = 1
    /\ sites[1].pos = 0 /\ sites[1].args_end = Len(content) - 1
    /\ content[Len(content)] = ")"

\* the arguments of that call
LinkArgs == split_args(SubSeq(content, ArgsStart(0, alias, method) + 1, Len(content) - 1))

\* C6 (as claimed): a link call whose escape-flag argument (the fourth, as in
\* Html::link($url, $title, [], false)) is the false literal is rewritten to
\* an anchor call that sets its content through ->html(, and any other link
\* call to one that sets it through ->text(.
C6_EscapeFlagSelectsSetter ==
    OneLinkCall =>
      IF Len(LinkArgs) >= 4 /\ LinkArgs[4] = TxtFalse
      THEN Contains(out, TxtHtmlOpen) /\ ~Contains(out, TxtTextOpen)
      ELSE Contains(out, TxtTextOpen)

\* the positions where the facade method name the pass looks for occurs
\* without being immediately followed by '(' and the length of the name
\* there: Alias::method for the call-site pass, Alias::\w+ for the generic one
NameLen(t, p) ==
    IF fn = "replace_alias_generic"
    THEN Len(alias) + 2 + RunLen(t, p + Len(alias) + 2, ClsWord)
    ELSE Len(CallName(alias, method))

IsNonCall(t, p) ==
    /\ IF fn = "replace_alias_generic"
       THEN HasAt(t, p, alias \o TxtColons, FALSE) /\ NameLen(t, p) > Len(alias) + 2
       ELSE HasAt(t, p, CallName(alias, method), FALSE)
    /\ ~HasAt(t, p + NameLen(t, p), <<"(">>, FALSE)

NonCalls(t) == {p \in 0..(Len(t) - 1) : IsNonCall(t, p)}

\* every call the pass replaced has its closing parenthesis
AllClosed ==
    \A k \in 1..Len(sites) :
      MatchingParen(content, ArgsStart(sites[k].pos, alias, method), 1, None, FALSE) # -1

\* C7 (as claimed), for the call-site pass on texts whose calls are all
\* closed: every occurrence of Alias::method that is not immediately
\* followed by '(' is copied to the output, so the output holds at least as
\* many such occurrences as the input.
C7_EveryNonCallCopied ==
    (CallsDone /\ AllClosed) =>
      Cardinality(NonCalls(out)) >= Cardinality(NonCalls(content))

\* position p .. p+len-1 of the input lies outside every replaced span
Outside(p, len) ==
    \A k \in 1..Len(sites) : p + len - 1 < sites[k].pos \/ p > sites[k].args_end

RECURSIVE Growth(_, _, _)
\* how much longer than the input the output is, over the spans before p
Growth(ss, k, p) ==
    IF k > Len(ss) \/ ss[k].pos >= p THEN 0
    ELSE Len(ss[k].code) - (ss[k].args_end - ss[k].pos + 1) + Growth(ss, k + 1, p)

\* C7 (amended): an occurrence of the facade method name not immediately
\* followed by '(' that lies outside the span of every replaced call is
\* never the start of a replaced span and stands unchanged in the output,
\* at its position shifted by the growth of the spans before it, still not
\* followed by '('.
C7_NonCallOutsideSpansCopied ==
    (CallsDone \/ GenericDone) =>
      \A p \in NonCalls(content) :
        /\ \A k \in 1..Len(sites) : sites[k].pos # p
        /\ Outside(p, NameLen(content, p)) =>
             LET q == p + Growth(sites, 1, p)
                 len == NameLen(content, p)
             IN  /\ HasAt(out, q, SubSeq(content, p + 1, p + len), FALSE)
                 /\ ~HasAt(out, q + len, <<"(">>, FALSE)

\* C7 witness: the link pass is over Alias::linkRoute( Alias::link ...; it
\* replaced nothing and both names stand in the output.
C7_Witness ==
    /\ CallsDone /\ method = TxtLink /\ sites = <<>>
    /\ Cardinality(NonCalls(content)) = 2
    /\ HasAt(content, 0, CallName(alias, TxtLinkRoute) \o <<"(">>, FALSE)
    /\ out = content

\* the input from position p to upto, with the spans ss[k], ss[k+1], ...
\* replaced by their code
RECURSIVE Stitched(_, _, _, _, _)
Stitched(t, ss, k, p, upto) ==
    IF k > Len(ss) THEN PySlice(t, p, upto)
    ELSE PySlice(t, p, ss[k].pos) \o ss[k].code
           \o Stitched(t, ss, k + 1, ss[k].args_end + 1, upto)

\* the replaced spans are call sites: each starts at the first call prefix
\* after the span before it, ends at the matching ')' (at the end of the
\* text when there is none) and, when the call is closed, is replaced by
\* the rule's text for its arguments
SitesAreCalls(t, ss) ==
    \A k \in 1..Len(ss) :
      LET from   == IF k = 1 THEN 0 ELSE ss[k - 1].args_end + 1
          astart == ArgsStart(ss[k].pos, alias, method)
          close  == MatchingParen(t, astart, 1, None, FALSE)
      IN  /\ ss[k].pos >= from
          /\ ss[k].pos = Find(t, CallName(alias, method) \o <<"(">>, from)
          /\ ss[k].args_end = (IF close # -1 THEN close ELSE Len(t) - 1)
          /\ (close # -1 =>
                ss[k].code = RuleCode(method, split_args(SubSeq(t, astart + 1, close))))

\* C8: the call-site pass never changes its input, only appends to out, and
\* out is the input up to the cursor (the whole input at the end) with each
\* recognized call site, prefix through closing parenthesis, replaced by
\* its rule's text; spans lie in the input, in order, without overlap, and
\* no call prefix outside them is left unreplaced.
C8_OutputIsStitchedInput ==
    [][(fn = "extract_and_replace_calls" /\ pc = "loop") =>
         /\ content' = content
         /\ IsPrefix(out, out')
         /\ SitesAreCalls(content, sites')
         /\ out' = Stitched(content, sites', 1, 0,
                            IF pc' = "done" THEN Len(content) ELSE idx')
         /\ (pc' = "done" =>
               Find(content, CallName(alias, method) \o <<"(">>, idx) = -1)]_vars

\* C8 witness: two call sites of one text are replaced and the text around
\* them is in the output.
C8_Witness ==
    /\ CallsDone /\ Len(sites) = 2
    /\ sites[1].pos > 0 /\ sites[2].pos > sites[1].args_end + 1
    /\ sites[2].args_end < Len(content) - 1

\* C9: every iteration of the pass that finds a call prefix leaves the
\* cursor strictly after that prefix, never before where it was and never
\* past the end of the text, so the distance to the end strictly shrinks;
\* an iteration that finds none ends the pass.
C9_ForwardProgress ==
    [][(fn = "extract_and_replace_calls" /\ pc = "loop") =>
         LET pos == FindCall(content, alias, method, idx)
         IN  IF pos # -1
             THEN /\ pc' = "loop"
                  /\ idx' > pos
                  /\ idx' >= pos + Len(CallName(alias, method)) + 1
                  /\ idx' > idx
                  /\ idx' <= Len(content)
                  /\ Len(content) - idx' < Len(content) - idx
             ELSE pc' = "done" /\ idx' = idx]_vars

\* C9 witness: the text ends with the '(' of a call prefix; the pass
\* replaced that unterminated call and the cursor is at the end of text.
C9_Witness ==
    /\ InCallLoop /\ Len(sites) = 1
    /\ sites[1].pos + Len(CallName(alias, method)) + 1 = Len(content)
    /\ idx = Len(content)

-----------------------------------------------------------------------------
(* The attribute machine: convert_attributes on literal arrays             *)

\* bound: most key/value pairs of a literal array
MaxPairs == 2

AttrKeys == { <<"c","l","a","s","s">>, <<"i","d">>, <<"d","a","t","a","-","x">>,
              <<"t","i","t","l","e">> }
AttrValues == { <<"b","t","n">>, <<"1">> }

\* 'key'=>'value'
Pair(key, val) == <<SQ>> \o key \o <<SQ, "=", ">", SQ>> \o val \o <<SQ>>

AttrPairs == {<<key, val>> : key \in AttrKeys, val \in AttrValues}

RECURSIVE JoinPairs(_)
JoinPairs(ps) ==
    IF ps = <<>> THEN <<>>
    ELSE Pair(ps[1][1], ps[1][2])
           \o (IF Len(ps) > 1 THEN <<",", " ">> ELSE <<>>) \o JoinPairs(Tail(ps))

\* ['k1'=>'v1', 'k2'=>'v2', ...]
ArrayOf(ps) == <<"[">> \o JoinPairs(ps) \o <<"]">>

PairLists == UNION {[1..k -> AttrPairs] : k \in 0..MaxPairs}

AttrsInit ==
    /\ pc = "call" /\ fn = "convert_attributes"
    /\ \E ps \in PairLists : array_str = ArrayOf(ps)
    /\ chain = None
    /\ content = <<>>
    /\ ScanIdle /\ CallsIdle /\ ConvertIdle

\* convert_attributes(array_str)
ConvertAttributes ==
    /\ fn = "convert_attributes" /\ pc = "call"
    /\ chain' = convert_attributes(array_str)
    /\ pc' = "done"
    /\ UNCHANGED <<fn, content, array_str, scanVars, callVars, convVars>>

AttrsNext == ConvertAttributes

SpecAttrs == AttrsInit /\ [][AttrsNext]_vars

\* the key/value pairs written in array_str, in order of appearance
RECURSIVE PairsIn(_, _)
PairsIn(t, p) ==
    IF p >= Len(t) THEN <<>>
    ELSE LET here == {kv \in AttrPairs : HasAt(t, p, Pair(kv[1], kv[2]), FALSE)}
         IN  IF here = {} THEN PairsIn(t, p + 1)
             ELSE LET kv == CHOOSE x \in here : TRUE
                  IN  <<kv>> \o PairsIn(t, p + Len(Pair(kv[1], kv[2])))

TxtAttributeOpen == <<"-", ">", "a", "t", "t", "r", "i", "b", "u", "t", "e", "(">>

\* the keys with a dedicated setter: class, id, name, type, value, placeholder
KnownKeys ==
    { <<"c","l","a","s","s">>, <<"i","d">>, <<"n","a","m","e">>, <<"t","y","p","e">>,
      <<"v","a","l","u","e">>, <<"p","l","a","c","e","h","o","l","d","e","r">> }

\* ->key('value') for a known key, ->attribute('key', 'value') for another
SetterOf(kv) ==
    IF kv[1] \in KnownKeys
    THEN <<"-", ">">> \o kv[1] \o <<"(", SQ>> \o kv[2] \o <<SQ, ")">>
    ELSE TxtAttributeOpen \o <<SQ>> \o kv[1] \o <<SQ, ",", " ", SQ>> \o kv[2] \o <<SQ, ")">>

\* C5 (as claimed): convert_attributes emits one setter per key/value pair,
\* in order and without de-duplication: ->key('value') for the keys class,
\* id, name, type, value, placeholder and ->attribute('key', 'value') for
\* every other key.
C5_OneSetterPerPair ==
    (fn = "convert_attributes" /\ pc = "done") =>
      LET ps == PairsIn(array_str, 0)
      IN  chain = Concat([k \in 1..Len(ps) |-> SetterOf(ps[k])])


-----------------------------------------------------------------------------
(* The convert_code machine: one step per statement of lines 237-259, run  *)
(* on a source text and then once more on its own result                   *)

FormMethods ==
    {MHidden, MEmail, MPassword, MSubmit, MSelect, MRadio, MCheckbox, MButton,
     MTextarea, MNumber} \cup {LoopMethods[k] : k \in 1..Len(LoopMethods)}

\* Form::m('a', 'b')
FlatForm(m) == TxtForm \o m \o <<"(","'","a","'",","," ","'","b","'",")">>

\* Form::outer('a', Form::inner('e', 'b'))
NestedForm(outer, inner) ==
    TxtForm \o outer \o <<"(","'","a","'",","," ">> \o TxtForm \o inner \o <<"(","'","e","'",","," ","'","b","'",")",")">>

ExUseAlias == <<"u","s","e"," ","C","o","l","l","e","c","t","i","v","e","\\","H","t","m","l","\\","H","t","m","l","F","a","c","a","d","e"," ","a","s"," ","H","t","m","l",";","\n","H","t","m","l",":",":","l","i","n","k","(","$","u",","," ","'","t","'",")">>
ExUseComment == <<"u","s","e"," ","C","o","l","l","e","c","t","i","v","e","\\","H","t","m","l","\\","H","t","m","l","F","a","c","a","d","e"," ","a","s"," ","H","t","m","l",";"," ","/","/","\n","H","t","m","l",":",":","a","(","H","t","m","l",":",":","b","(","1",")",")">>
ExUseDefault == <<"u","s","e"," ","C","o","l","l","e","c","t","i","v","e","\\","H","t","m","l","\\","H","t","m","l","F","a","c","a","d","e",";","\n","H","t","m","l","F","a","c","a","d","e",":",":","i","m","g","(","'","x","'",")">>
ExOpenClose == <<"F","o","r","m",":",":","o","p","e","n","(","[","'","i","d","'","=",">","'","f","'","]",")"," ","F","o","r","m",":",":","c","l","o","s","e","(",")">>
ExConverted == <<"h","t","m","l","(",")","-",">","h","i","d","d","e","n","(","'","a","'",","," ","'","b","'",")","-",">","i","d","(","'","x","'",")">>

ConvTexts ==
    {FlatForm(m) : m \in FormMethods}
      \cup {NestedForm(m[1], m[2]) : m \in FormMethods \X FormMethods}
      \cup {ExUseAlias, ExUseComment, ExUseDefault, ExOpenClose, ExConverted, <<>>}

ConvInit ==
    /\ fn = "convert_code" /\ pc = "aliases"
    /\ content \in ConvTexts
    /\ src = content
    /\ run = 1
    /\ first = None
    /\ aliases = <<>>
    /\ stmt = 0
    /\ alias = <<>> /\ method = <<>> /\ idx = 0 /\ out = <<>> /\ sites = <<>>
    /\ ScanIdle /\ AttrsIdle

\* the head of the `for alias in ...` loop (line 238) over the aliases als
\* still to come: the next alias, or on to line 243
ForAlias(als) ==
    IF als = <<>>
    THEN pc' = "form" /\ stmt' = 1 /\ aliases' = <<>> /\ alias' = <<>>
    ELSE pc' = "linkRoute" /\ stmt' = stmt /\ aliases' = Tail(als) /\ alias' = Head(als)

\* line 238: find_html_aliases(content)
FindAliases ==
    /\ fn = "convert_code" /\ pc = "aliases"
    /\ ForAlias(find_html_aliases(content))
    /\ UNCHANGED <<fn, content, method, idx, out, sites, src, run, first,
                   scanVars, attrVars>>

\* line 239
AliasLinkRoute ==
    /\ fn = "convert_code" /\ pc = "linkRoute"
    /\ content' = extract_and_replace_calls(content, alias, TxtLinkRoute)
    /\ pc' = "link"
    /\ UNCHANGED <<fn, callVars, convVars, scanVars, attrVars>>

\* line 240
AliasLink ==
    /\ fn = "convert_code" /\ pc = "link"
    /\ content' = extract_and_replace_calls(content, alias, TxtLink)
    /\ pc' = "generic"
    /\ UNCHANGED <<fn, callVars, convVars, scanVars, attrVars>>

\* line 241, and back to the head of the loop
AliasGeneric ==
    /\ fn = "convert_code" /\ pc = "generic"
    /\ content' = replace_alias_generic(content, alias)
    /\ ForAlias(aliases)
    /\ UNCHANGED <<fn, method, idx, out, sites, src, run, first,
                   scanVars, attrVars>>

\* control is at a statement of the given kind among lines 243-257
AtStatement(kind) ==
    /\ fn = "convert_code" /\ pc = "form"
    /\ stmt <= Len(FormStatements)
    /\ FormStatements[stmt].kind = kind

\* the method the statement at hand names
StatementMethod == FormStatements[stmt].method

\* on to the following statement
NextStatement ==
    /\ stmt' = stmt + 1
    /\ UNCHANGED <<pc, fn, callVars, aliases, src, run, first, scanVars, attrVars>>

\* line 243
RemoveUseLines ==
    /\ AtStatement("use")
    /\ content' = remove_use_lines(content)
    /\ NextStatement

\* line 244
FormOpen ==
    /\ AtStatement("open")
    /\ content' = form_open(content)
    /\ NextStatement

\* line 245
FormClose ==
    /\ AtStatement("close")
    /\ content' = form_close(content)
    /\ NextStatement

\* lines 246-247
SimpleField ==
    /\ AtStatement("simple")
    /\ content' = replace_simple_field(StatementMethod, StatementMethod, content)
    /\ NextStatement

\* lines 248-249, 253, 256-257
SingleArgField ==
    /\ AtStatement("single")
    /\ content' = replace_single_arg_field(StatementMethod, StatementMethod, content)
    /\ NextStatement

\* line 250
FormSelect ==
    /\ AtStatement("select")
    /\ content' = replace_form_select(content)
    /\ NextStatement

\* line 251
FormRadio ==
    /\ AtStatement("radio")
    /\ content' = replace_form_radio(content)
    /\ NextStatement

\* line 252
FormCheckbox ==
    /\ AtStatement("checkbox")
    /\ content' = replace_form_checkbox(content)
    /\ NextStatement

\* line 254
FormTextarea ==
    /\ AtStatement("textarea")
    /\ content' = replace_form_textarea(content)
    /\ NextStatement

\* line 255
FormNumber ==
    /\ AtStatement("number")
    /\ content' = replace_form_number(content)
    /\ NextStatement

\* line 259: return content; first keeps what the first run returned
ConvertReturn ==
    /\ fn = "convert_code" /\ pc = "form"
    /\ stmt > Len(FormStatements)
    /\ pc' = "returned"
    /\ first' = (IF run = 1 THEN content ELSE first)
    /\ UNCHANGED <<fn, content, callVars, aliases, stmt, src, run, scanVars, attrVars>>

\* the tool is run again over the file it has written
Rerun ==
    /\ fn = "convert_code" /\ pc = "returned"
    /\ run = 1
    /\ run' = 2
    /\ pc' = "aliases"
    /\ stmt' = 0
    /\ UNCHANGED <<fn, content, callVars, aliases, src, first, scanVars, attrVars>>

ConvNext ==
    \/ FindAliases \/ AliasLinkRoute \/ AliasLink \/ AliasGeneric
    \/ RemoveUseLines \/ FormOpen \/ FormClose \/ SimpleField \/ SingleArgField
    \/ FormSelect \/ FormRadio \/ FormCheckbox \/ FormTextarea \/ FormNumber
    \/ ConvertReturn \/ Rerun

SpecConvert == ConvInit /\ [][ConvNext]_vars

\* C10: convert_code is idempotent: running it on its own result returns that
\* result unchanged, convert_code(convert_code(x)) = convert_code(x)
C10_Idempotent ==
    (fn = "convert_code" /\ pc = "returned" /\ run = 2) => content = first

=============================================================================
